---- MODULE Spec2Model ----
(***************************************************************************)
(* TradingEngine (orchestrator), SafetyEngine and the venue-connector      *)
(* contract of the crypto-ai trading platform, as a state machine.         *)
(*                                                                         *)
(* One action per engine operation or asynchronous continuation.  An       *)
(* async method is cut at the awaits that wait for venue I/O: the code     *)
(* before the await is one action, the continuation that runs when the     *)
(* connector's promise settles is another.                                 *)
(***************************************************************************)
EXTENDS Integers, Sequences, FiniteSets, TLC

VARIABLES
    isRunning,      \* TradingEngine.isRunning
    config,         \* TradingEngine.config
    strategies,     \* TradingEngine.strategies : strategy id -> instance
    exchanges,      \* TradingEngine.exchanges  : strategy id -> connector
    activeOrders,   \* TradingEngine.activeOrders : key -> Order
    metrics,        \* TradingEngine.metrics
    timers,         \* live setInterval handles made by startOrderMonitoring
    venue,          \* order tables of the connectors : order id -> order
    dispatches,     \* in-flight processMarketData / addMarketData calls
    sweeps,         \* in-flight stop() calls awaiting cancelAllOrders
    passes,         \* in-flight updateActiveOrders passes
    events,         \* what the last step emitted or threw, in order
    sv,             \* SafetyEngine.validateSignal: last input and result
    sim,            \* SimulatorExchange: state, marketData, last request
    strat,          \* one BaseStrategy instance: context.lastSignal, clock
    halted,         \* SafetyEngine.emergencyStop() has completed
    ind             \* the object the last constructor or factory call made,
                    \* and what its last calculate returned

vars == <<isRunning, config, strategies, exchanges, activeOrders, metrics,
          timers, venue, dispatches, sweeps, passes, events, sv, sim, strat,
          halted, ind>>

\* The components specified on their own, which the engine's actions leave
\* alone.
libVars == <<sv, sim, strat, halted, ind>>

engineVars == <<isRunning, config, strategies, exchanges, activeOrders,
                metrics, timers, venue, dispatches, sweeps, passes, events>>

----------------------------------------------------------------------------
(* Bounds of the model *)

MaxSignals == 2        \* signals that enter the pipeline
MaxTimers == 2         \* interval timers alive at once
MaxDispatches == 1     \* dispatches in flight at once
MaxSweeps == 1         \* stop() calls in flight at once
MaxPasses == 1         \* monitoring passes in flight at once

(* Input domains *)

\* Strategy ids are chosen by the caller, order ids by the venue; both are
\* strings, and the engine uses order ids as keys into the connector
\* registry, so the two domains share a value.
StrategyIdSet == {"s1", "s2"}
OrderIdSeq == <<"o1", "s1">>   \* the ids the venue assigns, in order
OrderIdSet == {OrderIdSeq[i] : i \in DOMAIN OrderIdSeq}
Symbols == {"BTC-USD", "ETH-USD"}

\* The configuration and the connector each strategy id is added with.
StrategyConfig ==
    [s1 |-> [symbols |-> <<"BTC-USD">>, exchange |-> "c1"],
     s2 |-> [symbols |-> <<"ETH-USD", "BTC-USD">>, exchange |-> "c2"]]
Sides == {"buy", "sell"}
Confidences == {55, 80}
StrategyTypes == {"RSI_OVERSOLD_OVERBOUGHT", "MACD_CROSSOVER", "MOMENTUM"}

(* OrderStatus *)

OrderStatus == {"pending", "open", "filled", "cancelled", "rejected", "expired"}
TerminalStatus == {"filled", "cancelled", "rejected", "expired"}

----------------------------------------------------------------------------
(* Small helpers over partial maps and sequences *)

Range(s) == {s[i] : i \in DOMAIN s}

MapSet(m, k, v) == [x \in (DOMAIN m) \cup {k} |-> IF x = k THEN v ELSE m[x]]

MapDelete(m, k) == [x \in (DOMAIN m) \ {k} |-> m[x]]

EmptyMap == [x \in {} |-> 0]

Event(type, id, status) == [type |-> type, id |-> id, status |-> status]

Emitted(type) == \E i \in DOMAIN events : events[i].type = type

EmittedFor(type, id) ==
    \E i \in DOMAIN events : events[i].type = type /\ events[i].id = id

----------------------------------------------------------------------------
(* SafetyEngine *)

MaxPositionSizePct == 10        \* maxPositionSize = 0.1
MaxDrawdownPct == 20            \* maxDrawdown = 0.2
DefaultPortfolioValue == 10000  \* context.portfolioValue || 10000
EstimatedOrderValue == 1000     \* the placeholder order value
MinSignalConfidence == 60       \* minConfidence of checkSignalConfidence

\* A check's message is kept without the numbers its template interpolates.
Check(type, ok, failSeverity, okMessage, failMessage) ==
    [type |-> type, isValid |-> ok,
     message |-> IF ok THEN okMessage ELSE failMessage,
     severity |-> IF ok THEN "low" ELSE failSeverity]

\* portfolioValue 0 stands for an absent (or zero) value: both are falsy.
\* positionSizeRatio <= maxPositionSize, with the ratio and the limit both
\* multiplied by 100 * portfolioValue.
checkPositionSize(signal, context) ==
    LET portfolioValue == IF context.portfolioValue = 0
                          THEN DefaultPortfolioValue
                          ELSE context.portfolioValue
    IN  Check("POSITION_SIZE",
              EstimatedOrderValue * 100 <= MaxPositionSizePct * portfolioValue,
              "high", "Position size within limit",
              "Position size exceeds maximum")

checkDailyTradeLimit(context) ==
    Check("DAILY_LOSS_LIMIT", context.dailyTrades < context.maxDailyTrades,
          "medium", "Daily trades within limit",
          "Daily trade limit exceeded")

\* currentDrawdown is held in percent; 0 also stands for an absent value.
checkDrawdownLimit(context) ==
    Check("DRAWDOWN_LIMIT", context.currentDrawdown <= MaxDrawdownPct,
          "critical", "Drawdown within limit", "Drawdown exceeds maximum")

checkSignalConfidence(signal) ==
    Check("VOLATILITY_CHECK", signal.confidence >= MinSignalConfidence,
          "medium", "Signal confidence acceptable",
          "Signal confidence below minimum")

checkOrderConflicts(signal, context) ==
    LET conflictingOrders ==
            {o \in context.activeOrders :
                /\ o.symbol = signal.symbol
                /\ o.status = "open"
                /\ o.side # signal.side}
    IN  Check("CORRELATION_CHECK", conflictingOrders = {}, "high",
              "No conflicting orders found", "Found conflicting orders")

SelectFailed(checks) == SelectSeq(checks, LAMBDA c : ~c.isValid)

\* validateSignal with the high-severity filter left out of the verdict.
validateSignalCriticalOnly(signal, context) ==
    LET checks == << checkPositionSize(signal, context),
                     checkDailyTradeLimit(context),
                     checkDrawdownLimit(context),
                     checkSignalConfidence(signal),
                     checkOrderConflicts(signal, context) >>
        criticalFailures ==
            SelectSeq(checks, LAMBDA c : ~c.isValid /\ c.severity = "critical")
        failed == SelectFailed(checks)
    IN  [isValid |-> Len(criticalFailures) = 0,
         checks  |-> checks,
         reasons |-> [i \in DOMAIN failed |-> failed[i].message]]

validateSignal(signal, context) ==
    LET checks == << checkPositionSize(signal, context),
                     checkDailyTradeLimit(context),
                     checkDrawdownLimit(context),
                     checkSignalConfidence(signal),
                     checkOrderConflicts(signal, context) >>
        criticalFailures ==
            SelectSeq(checks, LAMBDA c : ~c.isValid /\ c.severity = "critical")
        highSeverityFailures ==
            SelectSeq(checks, LAMBDA c : ~c.isValid /\ c.severity = "high")
        failed == SelectFailed(checks)
    IN  [isValid |-> Len(criticalFailures) = 0 /\ Len(highSeverityFailures) = 0,
         checks  |-> checks,
         reasons |-> [i \in DOMAIN failed |-> failed[i].message]]

----------------------------------------------------------------------------
(* TradingEngine: state *)

Idle == <<>>

FreeSlots(f) == {i \in DOMAIN f : f[i] = Idle}

BusySlots(f) == {i \in DOMAIN f : f[i] # Idle}

InitialMetrics ==
    [totalSignals |-> 0, executedTrades |-> 0, rejectedSignals |-> 0,
     activeStrategies |-> 0, totalPnL |-> 0,
     successRate |-> [num |-> 0, den |-> 1]]

NotValidated == [isValid |-> TRUE, checks |-> <<>>, reasons |-> <<>>]

NoValidation ==
    [signal  |-> [symbol |-> "", side |-> "", confidence |-> 0],
     context |-> [activeOrders |-> {}, dailyTrades |-> 0, maxDailyTrades |-> 0,
                  portfolioValue |-> 0, currentDrawdown |-> 0],
     result  |-> NotValidated]

MaxDailyTradesCfg == 50

EngineInit ==
    /\ isRunning = FALSE
    /\ config \in {[enablePaperTrading |-> b, maxDailyTrades |-> MaxDailyTradesCfg]
                     : b \in BOOLEAN}
    /\ strategies = EmptyMap
    /\ exchanges = EmptyMap
    /\ activeOrders = EmptyMap
    /\ metrics = InitialMetrics
    /\ timers = 0
    /\ venue = EmptyMap
    /\ dispatches = [i \in 1..MaxDispatches |-> Idle]
    /\ sweeps = [i \in 1..MaxSweeps |-> Idle]
    /\ passes = [i \in 1..MaxPasses |-> Idle]
    /\ events = <<>>

\* No simulator is constructed.
NoSimulator == <<>>

\* No strategy instance is looked at on its own.
NoStrategy == <<>>

NoObject == [kind |-> "none"]
NotCalculated == [kind |-> "none"]
NoIndicator == [request |-> NoObject, obj |-> NoObject, out |-> NotCalculated]

Init ==
    /\ EngineInit
    /\ sv = NoValidation
    /\ sim = NoSimulator
    /\ strat = NoStrategy
    /\ halted = FALSE
    /\ ind = NoIndicator

----------------------------------------------------------------------------
(* Public getters *)

getActiveOrders == {activeOrders[k] : k \in DOMAIN activeOrders}

getMetrics == metrics

isEngineRunning == isRunning

----------------------------------------------------------------------------
(* StrategyFactory *)

getSupportedTypes == {"RSI_OVERSOLD_OVERBOUGHT", "MACD_CROSSOVER"}

----------------------------------------------------------------------------
(* addStrategy / removeStrategy *)

\* The instance is initialized on its first symbol and registered together
\* with its connector.  Ids already registered are not offered again.
addStrategy(id, type) ==
    /\ id \notin DOMAIN strategies
    /\ IF type \in getSupportedTypes
       THEN /\ strategies' = MapSet(strategies, id,
                                    [isActive |-> TRUE,
                                     symbols |-> StrategyConfig[id].symbols])
            /\ exchanges' = MapSet(exchanges, id, StrategyConfig[id].exchange)
            /\ metrics' = [metrics EXCEPT
                             !.activeStrategies = Cardinality(DOMAIN strategies')]
            /\ events' = <<Event("strategyAdded", id, "")>>
       ELSE /\ UNCHANGED <<strategies, exchanges, metrics>>
            /\ events' = <<Event("error", id, ""),
                           Event("throw", "addStrategy", "")>>
    /\ UNCHANGED <<isRunning, config, activeOrders, timers, venue, dispatches,
                   sweeps, passes, libVars>>

\* A dispatch in flight keeps the removed instance in its snapshot; the
\* instance is inactive from now on.
MarkStale(d, id) ==
    IF d = Idle \/ id \notin d[1].todo THEN d
    ELSE <<[d[1] EXCEPT !.stale = @ \cup {id}]>>

\* removeStrategy that forgets the connector registry.
removeStrategyKeepsConnector(strategyId) ==
    /\ IF strategyId \in DOMAIN strategies
       THEN /\ strategies' = MapDelete(strategies, strategyId)
            /\ UNCHANGED exchanges
            /\ metrics' = [metrics EXCEPT
                             !.activeStrategies = Cardinality(DOMAIN strategies')]
            /\ dispatches' = [i \in DOMAIN dispatches |->
                                MarkStale(dispatches[i], strategyId)]
            /\ events' = <<Event("strategyRemoved", strategyId, "")>>
       ELSE /\ UNCHANGED <<strategies, exchanges, metrics, dispatches>>
            /\ events' = <<>>
    /\ UNCHANGED <<isRunning, config, activeOrders, timers, venue, sweeps,
                   passes, libVars>>

removeStrategy(strategyId) ==
    /\ IF strategyId \in DOMAIN strategies
       THEN /\ strategies' = MapDelete(strategies, strategyId)
            /\ exchanges' = MapDelete(exchanges, strategyId)
            /\ metrics' = [metrics EXCEPT
                             !.activeStrategies = Cardinality(DOMAIN strategies')]
            /\ dispatches' = [i \in DOMAIN dispatches |->
                                MarkStale(dispatches[i], strategyId)]
            /\ events' = <<Event("strategyRemoved", strategyId, "")>>
       ELSE /\ UNCHANGED <<strategies, exchanges, metrics, dispatches>>
            /\ events' = <<>>
    /\ UNCHANGED <<isRunning, config, activeOrders, timers, venue, sweeps,
                   passes, libVars>>

----------------------------------------------------------------------------
(* start / stop *)

\* startOrderMonitoring: one more interval timer.
startOrderMonitoring == timers' = timers + 1

\* start() without its already-running guard.
startUnguarded ==
    /\ timers < MaxTimers
    /\ isRunning' = TRUE
    /\ events' = <<Event("engineStarted", "", "")>>
    /\ startOrderMonitoring
    /\ UNCHANGED <<config, strategies, exchanges, activeOrders, metrics, venue,
                   dispatches, sweeps, passes, libVars>>

start ==
    /\ IF isRunning
       THEN /\ UNCHANGED <<isRunning, timers>>
            /\ events' = <<Event("throw", "start", "")>>
       ELSE /\ timers < MaxTimers
            /\ isRunning' = TRUE
            /\ events' = <<Event("engineStarted", "", "")>>
            /\ startOrderMonitoring
    /\ UNCHANGED <<config, strategies, exchanges, activeOrders, metrics, venue,
                   dispatches, sweeps, passes, libVars>>

\* The connector calls one pass over activeOrders.entries() issues: the key
\* of the entry is looked up in the connector registry.
ConnectorCalls ==
    {[key |-> k, orderId |-> activeOrders[k].id, conn |-> exchanges[k]]
        : k \in (DOMAIN activeOrders) \cap (DOMAIN exchanges)}

\* The promise array of one pass: every call it issued, and the ones that
\* have not settled yet.
Pass(calls) == [issued |-> calls, pending |-> calls]

\* cancelAllOrders up to its await: the cancelOrder calls it issues.
cancelAllOrders == ConnectorCalls

\* stop() without its not-running guard.
stopUnguarded ==
    /\ isRunning' = FALSE
    /\ IF cancelAllOrders = {}
       THEN /\ UNCHANGED sweeps
            /\ events' = <<Event("engineStopped", "", "")>>
       ELSE /\ \E i \in FreeSlots(sweeps) :
                 sweeps' = [sweeps EXCEPT
                              ![i] = <<Pass(cancelAllOrders)>>]
            /\ events' = <<>>
    /\ UNCHANGED <<config, strategies, exchanges, activeOrders, metrics, timers,
                   venue, dispatches, passes, libVars>>

stop ==
    /\ IF ~isRunning
       THEN /\ UNCHANGED <<isRunning, sweeps>>
            /\ events' = <<>>
       ELSE /\ isRunning' = FALSE
            /\ IF cancelAllOrders = {}
               THEN /\ UNCHANGED sweeps
                    /\ events' = <<Event("engineStopped", "", "")>>
               ELSE /\ \E i \in FreeSlots(sweeps) :
                         sweeps' = [sweeps EXCEPT
                                      ![i] = <<Pass(cancelAllOrders)>>]
                    /\ events' = <<>>
    /\ UNCHANGED <<config, strategies, exchanges, activeOrders, metrics, timers,
                   venue, dispatches, passes, libVars>>

CallOutcomes == {"ok", "error", "throw"}

\* The venue side of cancelOrder: the order, if this connector holds it,
\* becomes CANCELLED.
VenueHolds(conn, orderId) ==
    orderId \in DOMAIN venue /\ venue[orderId].conn = conn

venueCancelOrder(orderId) ==
    [venue EXCEPT ![orderId].status = "cancelled"]

\* One cancelOrder promise settles.  A resolved promise (success or error
\* envelope) runs the .then, a rejected one the .catch.  After the last one
\* stop() resumes and emits engineStopped.
cancelOrderSettled(i, c, outcome) ==
    LET left == sweeps[i][1].pending \ {c}
        done == IF left = {} THEN <<Event("engineStopped", "", "")>> ELSE <<>>
    IN
    /\ outcome = "ok" => VenueHolds(c.conn, c.orderId)
    /\ venue' = IF outcome = "ok" THEN venueCancelOrder(c.orderId) ELSE venue
    /\ activeOrders' = IF outcome = "throw" THEN activeOrders
                       ELSE MapDelete(activeOrders, c.orderId)
    /\ events' = (IF outcome = "throw"
                  THEN <<Event("orderCancelError", c.orderId, "")>>
                  ELSE <<>>) \o done
    /\ sweeps' = [sweeps EXCEPT
                    ![i] = IF left = {} THEN Idle
                           ELSE <<[sweeps[i][1] EXCEPT !.pending = left]>>]
    /\ UNCHANGED <<isRunning, config, strategies, exchanges, metrics, timers,
                   dispatches, passes, libVars>>

----------------------------------------------------------------------------
(* Order monitoring *)

\* updatePnL: the placeholder emits pnlUpdated.
updatePnL(order) == <<Event("pnlUpdated", order.id, order.status)>>

\* The orderCompleted listener of setupEventListeners.
onOrderCompleted(order) ==
    IF order.status = "filled" THEN updatePnL(order) ELSE <<>>

\* updateActiveOrders up to its await: the getOrder calls it issues.
updateActiveOrders == ConnectorCalls

\* One firing of the interval callback of startOrderMonitoring.
monitorTick ==
    /\ timers > 0
    /\ IF ~isRunning
       THEN /\ timers' = timers - 1
            /\ UNCHANGED passes
       ELSE /\ UNCHANGED timers
            /\ IF updateActiveOrders = {}
               THEN /\ UNCHANGED passes
               ELSE /\ \E i \in FreeSlots(passes) :
                         passes' = [passes EXCEPT
                                      ![i] = <<Pass(updateActiveOrders)>>]
    /\ events' = <<>>
    /\ UNCHANGED <<isRunning, config, strategies, exchanges, activeOrders,
                   metrics, venue, dispatches, sweeps, libVars>>

\* The Order a connector's getOrder reports.
venueGetOrder(orderId) ==
    [id |-> orderId, symbol |-> venue[orderId].symbol,
     side |-> venue[orderId].side, status |-> venue[orderId].status]

\* One getOrder promise settles: "ok" is a success envelope with the order,
\* "error" an error envelope, "throw" a rejected promise.
getOrderSettled(i, c, outcome) ==
    LET left == passes[i][1].pending \ {c}
        updatedOrder == venueGetOrder(c.orderId)
    IN
    /\ outcome = "ok" => VenueHolds(c.conn, c.orderId)
    /\ IF outcome = "ok"
       THEN IF updatedOrder.status = "filled" \/ updatedOrder.status = "cancelled"
            THEN /\ activeOrders' = MapDelete(activeOrders, c.orderId)
                 /\ events' = <<Event("orderCompleted", c.orderId,
                                      updatedOrder.status)>>
                              \o onOrderCompleted(updatedOrder)
            ELSE /\ activeOrders' = MapSet(activeOrders, c.orderId, updatedOrder)
                 /\ events' = <<>>
       ELSE /\ UNCHANGED activeOrders
            /\ events' = IF outcome = "throw"
                         THEN <<Event("orderUpdateError", c.orderId, "")>>
                         ELSE <<>>
    /\ passes' = [passes EXCEPT
                    ![i] = IF left = {} THEN Idle
                           ELSE <<[passes[i][1] EXCEPT !.pending = left]>>]
    /\ UNCHANGED <<isRunning, config, strategies, exchanges, metrics, timers,
                   venue, dispatches, sweeps, libVars>>

\* The venue moves an order on: a resting order fills.
venueProgress(orderId, status) ==
    /\ orderId \in DOMAIN venue
    /\ venue[orderId].status = "open"
    /\ status = "filled"
    /\ venue' = [venue EXCEPT ![orderId].status = status]
    /\ events' = <<>>
    /\ UNCHANGED <<isRunning, config, strategies, exchanges, activeOrders,
                   metrics, timers, dispatches, sweeps, passes, libVars>>

----------------------------------------------------------------------------
(* Dispatch: processMarketData / addMarketData *)

relevantStrategies(symbol) ==
    {id \in DOMAIN strategies :
        /\ symbol \in Range(strategies[id].symbols)
        /\ strategies[id].isActive}

\* The call up to its loop: the guard and the snapshot of the strategies.
processMarketData(symbol) ==
    /\ IF ~isRunning \/ relevantStrategies(symbol) = {}
       THEN /\ UNCHANGED dispatches
       ELSE /\ \E i \in FreeSlots(dispatches) :
                 dispatches' = [dispatches EXCEPT ![i] =
                     <<[symbol |-> symbol,
                        todo |-> relevantStrategies(symbol),
                        stale |-> {}, waiting |-> <<>>]>>]
    /\ events' = <<>>
    /\ UNCHANGED <<isRunning, config, strategies, exchanges, activeOrders,
                   metrics, timers, venue, sweeps, passes, libVars>>

Resume(i, d) ==
    dispatches' = [dispatches EXCEPT
                     ![i] = IF d.todo = {} /\ d.waiting = <<>>
                            THEN Idle ELSE <<d>>]

updateMetrics(m) ==
    IF m.totalSignals > 0
    THEN [m EXCEPT !.successRate =
            [num |-> m.executedTrades * 100, den |-> m.totalSignals]]
    ELSE m

\* The tradeExecuted listener of setupEventListeners.
onTradeExecuted(m) == updateMetrics(m)

executePaperTrade(i, d, signal, m) ==
    /\ metrics' = [m EXCEPT !.executedTrades = @ + 1]
    /\ events' = <<Event("paperTradeExecuted", signal.strategyId, "filled")>>
    /\ Resume(i, d)

\* executeRealTrade up to its await of placeOrder.
executeRealTrade(i, d, signal, m) ==
    /\ metrics' = m
    /\ IF signal.strategyId \in DOMAIN exchanges
       THEN /\ events' = <<>>
            /\ Resume(i, [d EXCEPT !.waiting =
                   <<[strategyId |-> signal.strategyId, symbol |-> signal.symbol,
                      side |-> signal.side,
                      conn |-> exchanges[signal.strategyId]]>>])
       ELSE /\ events' = <<Event("signalProcessingError", signal.strategyId, "")>>
            /\ Resume(i, d)

\* processSignal without the mode branch: every approved signal goes to
\* the connector.
processSignalLiveOnly(i, d, signal) ==
    LET m == [metrics EXCEPT !.totalSignals = @ + 1]
        safetyResult ==
            validateSignal(signal,
                [activeOrders |-> getActiveOrders,
                 dailyTrades |-> metrics.executedTrades,
                 maxDailyTrades |-> config.maxDailyTrades,
                 portfolioValue |-> 0, currentDrawdown |-> 0])
    IN  IF ~safetyResult.isValid
        THEN /\ metrics' = [m EXCEPT !.rejectedSignals = @ + 1]
             /\ events' = <<Event("signalRejected", signal.strategyId, "")>>
             /\ Resume(i, d)
        ELSE executeRealTrade(i, d, signal, m)

processSignal(i, d, signal) ==
    LET m == [metrics EXCEPT !.totalSignals = @ + 1]
        safetyResult ==
            validateSignal(signal,
                [activeOrders |-> getActiveOrders,
                 dailyTrades |-> metrics.executedTrades,
                 maxDailyTrades |-> config.maxDailyTrades,
                 portfolioValue |-> 0, currentDrawdown |-> 0])
    IN  IF ~safetyResult.isValid
        THEN /\ metrics' = [m EXCEPT !.rejectedSignals = @ + 1]
             /\ events' = <<Event("signalRejected", signal.strategyId, "")>>
             /\ Resume(i, d)
        ELSE IF config.enablePaperTrading
             THEN executePaperTrade(i, d, signal, m)
             ELSE executeRealTrade(i, d, signal, m)

StepOutcomes == {"feedThrows", "runThrows", "noSignal", "signal"}

\* The loop body without its try/catch: the exception leaves the dispatch
\* and the rest of the snapshot is never evaluated.
strategyErrorEscapes(i, s, rest) ==
    /\ events' = <<Event("throw", "processMarketData", "")>>
    /\ dispatches' = [dispatches EXCEPT ![i] = Idle]

\* The catch block of the loop body: the error is reported for the
\* strategy and the loop goes on with the rest of the snapshot.
strategyErrorCaught(i, s, rest) ==
    /\ events' = <<Event("strategyError", s, "")>>
    /\ Resume(i, rest)

\* One iteration of the loop over the snapshot, up to the await of
\* placeOrder: feed the data, run(), and hand a signal to processSignal.
\* A removed instance is inactive: its run() returns null.
evaluateStrategy(i, s, outcome, side, confidence) ==
    LET d == dispatches[i][1]
        rest == [d EXCEPT !.todo = @ \ {s}, !.stale = @ \ {s}]
    IN
    /\ d.waiting = <<>>
    /\ s \in d.todo
    /\ s \in d.stale => outcome \in {"feedThrows", "noSignal"}
    /\ CASE outcome \in {"feedThrows", "runThrows"} ->
              /\ strategyErrorCaught(i, s, rest)
              /\ UNCHANGED metrics
         [] outcome = "noSignal" ->
              /\ events' = <<>>
              /\ Resume(i, rest)
              /\ UNCHANGED metrics
         [] outcome = "signal" ->
              /\ metrics.totalSignals < MaxSignals
              /\ processSignal(i, rest,
                    [symbol |-> strategies[s].symbols[1], side |-> side,
                     confidence |-> confidence, strategyId |-> s])
    /\ UNCHANGED <<isRunning, config, strategies, exchanges, activeOrders,
                   timers, venue, sweeps, passes, libVars>>

\* What placeOrder can come back with: a success envelope whose order is
\* FILLED (a market order) or OPEN (a resting limit order), an error
\* envelope, or a rejected promise.
PlaceOutcomes == {"filled", "open", "error", "throw"}

\* CoinbaseProExchange.placeOrder: the order of a success envelope is
\* PENDING whatever the venue made of it, and every failure comes back as
\* an error envelope.
CoinbasePlaceOutcomes == {"pending", "error"}

\* The id the venue gives its next order.
nextOrderId ==
    IF Cardinality(DOMAIN venue) < Len(OrderIdSeq)
    THEN OrderIdSeq[Cardinality(DOMAIN venue) + 1]
    ELSE ""

\* The venue side of a successful placeOrder: the order enters the
\* connector's table.
venuePlaceOrder(orderId, w, status) ==
    MapSet(venue, orderId,
           [conn |-> w.conn, symbol |-> w.symbol, side |-> w.side,
            status |-> status])

\* The error-envelope branch with the rejected counter left alone.
placeOrderRejectedUncounted(w) ==
    /\ UNCHANGED metrics
    /\ events' = <<Event("tradeRejected", w.strategyId, "")>>
    /\ UNCHANGED <<venue, activeOrders>>

\* The branch of executeRealTrade for an error envelope.
placeOrderRejected(w) ==
    /\ metrics' = [metrics EXCEPT !.rejectedSignals = @ + 1]
    /\ events' = <<Event("tradeRejected", w.strategyId, "")>>
    /\ UNCHANGED <<venue, activeOrders>>

\* The placeOrder promise settles and executeRealTrade resumes.
placeOrderSettled(i, outcome) ==
    LET d == dispatches[i][1]
        orderId == nextOrderId
        w == d.waiting[1]
        rest == [d EXCEPT !.waiting = <<>>]
        order == [id |-> orderId, symbol |-> w.symbol, side |-> w.side,
                  status |-> outcome]
    IN
    /\ d.waiting # <<>>
    /\ CASE outcome \in {"filled", "open", "pending"} ->
              /\ Cardinality(DOMAIN venue) < Len(OrderIdSeq)
              /\ venue' = venuePlaceOrder(orderId, w,
                              IF outcome = "pending" THEN "open"
                              ELSE outcome)
              /\ activeOrders' = MapSet(activeOrders, orderId, order)
              /\ metrics' = onTradeExecuted(
                                [metrics EXCEPT !.executedTrades = @ + 1])
              /\ events' = <<Event("tradeExecuted", orderId, outcome)>>
         [] outcome = "error" -> placeOrderRejected(w)
         [] outcome = "throw" ->
              /\ events' = <<Event("tradeExecutionError", w.strategyId, ""),
                             Event("signalProcessingError", w.strategyId, "")>>
              /\ UNCHANGED <<venue, activeOrders, metrics>>
    /\ Resume(i, rest)
    /\ UNCHANGED <<isRunning, config, strategies, exchanges, timers, sweeps,
                   passes, libVars>>

----------------------------------------------------------------------------
(* The engine's next-state relation *)

AddStrategy ==
    \E id \in StrategyIdSet, type \in StrategyTypes : addStrategy(id, type)

RemoveStrategy == \E id \in StrategyIdSet : removeStrategy(id)

Start == start

Stop == stop

CancelOrderSettled ==
    \E i \in BusySlots(sweeps) : \E c \in sweeps[i][1].pending :
        \E outcome \in CallOutcomes : cancelOrderSettled(i, c, outcome)

MonitorTick == monitorTick

GetOrderSettled ==
    \E i \in BusySlots(passes) : \E c \in passes[i][1].pending :
        \E outcome \in CallOutcomes : getOrderSettled(i, c, outcome)

VenueProgress ==
    \E orderId \in OrderIdSet, status \in OrderStatus :
        venueProgress(orderId, status)

ProcessMarketData == \E symbol \in Symbols : processMarketData(symbol)

\* Side and confidence are those of the signal run() returns, if it does.
EvaluateStrategy ==
    \E i \in BusySlots(dispatches) : \E s \in StrategyIdSet :
        \/ \E outcome \in StepOutcomes \ {"signal"} :
              evaluateStrategy(i, s, outcome, "", 0)
        \/ \E side \in Sides, confidence \in Confidences :
              evaluateStrategy(i, s, "signal", side, confidence)

PlaceOrderSettled ==
    \E i \in BusySlots(dispatches) :
        \E outcome \in PlaceOutcomes : placeOrderSettled(i, outcome)

Next ==
    \/ Start
    \/ Stop
    \/ CancelOrderSettled
    \/ MonitorTick
    \/ GetOrderSettled
    \/ AddStrategy
    \/ RemoveStrategy
    \/ ProcessMarketData
    \/ EvaluateStrategy
    \/ PlaceOrderSettled
    \/ VenueProgress

Spec == Init /\ [][Next]_vars

----------------------------------------------------------------------------
(* The two passes over the registry on their own: stop()'s sweep and the
   monitoring tick, on a running engine that has placed its orders *)

\* Order ids the venues assigned; two of them are also strategy ids.
SweepOrderIds == {"o1", "s1", "s2"}

SweepConnector == [o1 |-> "c1", s1 |-> "c1", s2 |-> "c2"]

SweepOrder(id) ==
    [id |-> id, symbol |-> "BTC-USD", side |-> "buy", status |-> "open"]

SweepInit ==
    /\ isRunning = TRUE
    /\ config \in {[enablePaperTrading |-> FALSE,
                    maxDailyTrades |-> MaxDailyTradesCfg]}
    /\ strategies = [id \in StrategyIdSet |->
                        [isActive |-> TRUE,
                         symbols |-> StrategyConfig[id].symbols]]
    /\ exchanges = [id \in StrategyIdSet |-> StrategyConfig[id].exchange]
    /\ \E ids \in SUBSET SweepOrderIds :
          /\ Cardinality(ids) \in 1..MaxSignals
          /\ activeOrders = [id \in ids |-> SweepOrder(id)]
          /\ venue = [id \in ids |->
                         [conn |-> SweepConnector[id], symbol |-> "BTC-USD",
                          side |-> "buy", status |-> "open"]]
          /\ metrics = updateMetrics(
                 [InitialMetrics EXCEPT
                    !.totalSignals = Cardinality(ids),
                    !.executedTrades = Cardinality(ids),
                    !.activeStrategies = Cardinality(StrategyIdSet)])
    /\ timers = 1
    /\ dispatches = [i \in 1..MaxDispatches |-> Idle]
    /\ sweeps = [i \in 1..MaxSweeps |-> Idle]
    /\ passes = [i \in 1..MaxPasses |-> Idle]
    /\ events = <<>>
    /\ sv = NoValidation
    /\ sim = NoSimulator
    /\ strat = NoStrategy
    /\ halted = FALSE
    /\ ind = NoIndicator

SweepNext ==
    \/ Start
    \/ Stop
    \/ CancelOrderSettled
    \/ MonitorTick
    \/ GetOrderSettled
    \/ VenueProgress

SweepSpec == SweepInit /\ [][SweepNext]_vars

----------------------------------------------------------------------------
(* The running live engine on Coinbase Pro connectors *)

CoinbasePlaceOrderSettled ==
    \E i \in BusySlots(dispatches) :
        \E outcome \in CoinbasePlaceOutcomes : placeOrderSettled(i, outcome)

LiveInit ==
    /\ isRunning = TRUE
    /\ config \in {[enablePaperTrading |-> FALSE,
                    maxDailyTrades |-> MaxDailyTradesCfg]}
    /\ strategies = [id \in StrategyIdSet |->
                        [isActive |-> TRUE,
                         symbols |-> StrategyConfig[id].symbols]]
    /\ exchanges = [id \in StrategyIdSet |-> StrategyConfig[id].exchange]
    /\ activeOrders = EmptyMap
    /\ venue = EmptyMap
    /\ metrics = [InitialMetrics EXCEPT
                     !.activeStrategies = Cardinality(StrategyIdSet)]
    /\ timers = 1
    /\ dispatches = [i \in 1..MaxDispatches |-> Idle]
    /\ sweeps = [i \in 1..MaxSweeps |-> Idle]
    /\ passes = [i \in 1..MaxPasses |-> Idle]
    /\ events = <<>>
    /\ sv = NoValidation
    /\ sim = NoSimulator
    /\ strat = NoStrategy
    /\ halted = FALSE
    /\ ind = NoIndicator

LiveNext ==
    \/ ProcessMarketData
    \/ EvaluateStrategy
    \/ CoinbasePlaceOrderSettled
    \/ MonitorTick
    \/ GetOrderSettled
    \/ VenueProgress

LiveSpec == LiveInit /\ [][LiveNext]_vars

----------------------------------------------------------------------------
(* SafetyEngine.validateSignal on its own: every input of a small domain *)

SafetyConfidences == {55, 60, 80}
SafetyDailyTrades == {0, 49, 50}
SafetyPortfolioValues == {0, 5000, 10000, 20000}
SafetyDrawdowns == {0, 20, 21}
SafetyOrders ==
    {[id |-> "o1", symbol |-> "BTC-USD", side |-> "buy", status |-> "open"],
     [id |-> "o2", symbol |-> "BTC-USD", side |-> "sell", status |-> "open"],
     [id |-> "o3", symbol |-> "BTC-USD", side |-> "sell", status |-> "filled"],
     [id |-> "o4", symbol |-> "ETH-USD", side |-> "sell", status |-> "open"]}

SafetySignals ==
    [symbol : Symbols, side : Sides, confidence : SafetyConfidences]

SafetyContexts ==
    [activeOrders : SUBSET SafetyOrders, dailyTrades : SafetyDailyTrades,
     maxDailyTrades : {MaxDailyTradesCfg},
     portfolioValue : SafetyPortfolioValues,
     currentDrawdown : SafetyDrawdowns]

SafetyInit ==
    /\ EngineInit
    /\ sv \in [signal : SafetySignals, context : SafetyContexts,
               result : {NotValidated}]
    /\ sim = NoSimulator
    /\ strat = NoStrategy
    /\ halted = FALSE
    /\ ind = NoIndicator

ValidateSignal ==
    /\ sv.result = NotValidated
    /\ sv' = [sv EXCEPT !.result = validateSignal(sv.signal, sv.context)]
    /\ UNCHANGED <<engineVars, sim, strat, halted, ind>>

SafetyNext == ValidateSignal

SafetySpec == SafetyInit /\ [][SafetyNext]_vars

----------------------------------------------------------------------------
(* SimulatorExchange on its own *)

\* Balances, sizes and prices are JavaScript numbers: binary floating point,
\* every arithmetic result rounded to the nearest representable value, ties
\* to even.  The model keeps that arithmetic and scales the significand
\* down from 53 bits to MantissaBits; values are counted in whole units.
MantissaBits == 3

MaxSimOrders == 3      \* placeOrder calls on one simulator

Abs(x) == IF x < 0 THEN -x ELSE x

RECURSIVE Pow2(_)
Pow2(n) == IF n = 0 THEN 1 ELSE 2 * Pow2(n - 1)

RECURSIVE BitLen(_)
BitLen(n) == IF n = 0 THEN 0 ELSE 1 + BitLen(n \div 2)

\* The representable number nearest to x.
Fl(x) ==
    LET a == Abs(x)
        e == BitLen(a) - MantissaBits
    IN  IF e <= 0 THEN x
        ELSE LET q == Pow2(e)
                 lo == (a \div q) * q
                 r == a - lo
                 up == IF 2 * r > q \/ (2 * r = q /\ (a \div q) % 2 = 1)
                       THEN lo + q ELSE lo
             IN  IF x < 0 THEN -up ELSE up

SimCurrencies == {"USD", "BTC", "ETH"}

\* symbol.split('-')
BaseCurrency(symbol) ==
    IF symbol = "BTC-USD" THEN "BTC"
    ELSE IF symbol = "ETH-USD" THEN "ETH" ELSE "XRP"

QuoteCurrency(symbol) == "USD"

\* Input domains of the simulator
SimInitialBalances == {8}
SimPrices == {2, 3}
SimSizes == {3, 6}
OrderTypes == {"market", "limit"}
\* Requests on one market, and one on a symbol that has no market.
SimRequests ==
    [symbol : {"BTC-USD"}, side : Sides, type : OrderTypes, size : SimSizes]
        \cup {[symbol |-> "XRP-USD", side |-> "buy", type |-> "market",
                size |-> 3]}

NoRequest == <<>>

initializeMarketData == [symbol \in Symbols |-> 3]

\* new SimulatorExchange(credentials, initialBalance)
SimConstructed(initialBalance) ==
    [balances |-> [c \in SimCurrencies |->
                      IF c = "USD" THEN initialBalance ELSE 0],
     orders |-> EmptyMap,
     nextOrderId |-> 1,
     marketData |-> initializeMarketData,
     last |-> NoRequest]

\* The balances after the fill of a market order.
simulateOrderFill(balances, order, fillPrice) ==
    LET baseCurrency == BaseCurrency(order.symbol)
        quoteCurrency == QuoteCurrency(order.symbol)
        orderValue == Fl(order.size * fillPrice)
    IN  IF order.side = "buy"
        THEN [balances EXCEPT
                ![quoteCurrency] = Fl(@ - orderValue),
                ![baseCurrency] = Fl(@ + order.size)]
        ELSE [balances EXCEPT
                ![baseCurrency] = Fl(@ - order.size),
                ![quoteCurrency] = Fl(@ + orderValue)]

simPlaceOrder(orderRequest) ==
    LET orderId == sim.nextOrderId
        isMarketOrder == orderRequest.type = "market"
        order == [id |-> orderId, symbol |-> orderRequest.symbol,
                  side |-> orderRequest.side, type |-> orderRequest.type,
                  size |-> orderRequest.size,
                  status |-> IF isMarketOrder THEN "filled" ELSE "open"]
    IN
    /\ sim # NoSimulator
    /\ sim.nextOrderId <= MaxSimOrders
    /\ IF orderRequest.symbol \notin DOMAIN sim.marketData
       THEN sim' = [sim EXCEPT
                      !.nextOrderId = @ + 1,
                      !.last = [request |-> orderRequest, success |-> FALSE,
                                before |-> sim.balances]]
       ELSE sim' = [sim EXCEPT
                      !.nextOrderId = @ + 1,
                      !.orders = MapSet(@, orderId, order),
                      !.balances =
                          IF isMarketOrder
                          THEN simulateOrderFill(@, order,
                                   sim.marketData[orderRequest.symbol])
                          ELSE @,
                      !.last = [request |-> orderRequest, success |-> TRUE,
                                before |-> sim.balances]]
    /\ UNCHANGED <<engineVars, sv, strat, halted, ind>>

\* An unknown id gets an error envelope and nothing changes.
simCancelOrder(orderId) ==
    /\ sim # NoSimulator
    /\ IF orderId \in DOMAIN sim.orders
       THEN sim' = [sim EXCEPT !.orders[orderId].status = "cancelled"]
       ELSE UNCHANGED sim
    /\ UNCHANGED <<engineVars, sv, strat, halted, ind>>

\* One firing of the interval of startPriceSimulation: every price moves.
simPriceTick(prices) ==
    /\ sim # NoSimulator
    /\ sim' = [sim EXCEPT !.marketData = prices, !.last = NoRequest]
    /\ UNCHANGED <<engineVars, sv, strat, halted, ind>>

SimPlaceOrder == \E orderRequest \in SimRequests : simPlaceOrder(orderRequest)

SimCancelOrder == \E orderId \in 1..MaxSimOrders : simCancelOrder(orderId)

SimPriceTick == \E prices \in [Symbols -> SimPrices] : simPriceTick(prices)

SimInit ==
    /\ EngineInit
    /\ sv = NoValidation
    /\ sim \in {SimConstructed(b) : b \in SimInitialBalances}
    /\ strat = NoStrategy
    /\ halted = FALSE
    /\ ind = NoIndicator

SimNext ==
    \/ SimPlaceOrder
    \/ SimCancelOrder
    \/ SimPriceTick

SimSpec == SimInit /\ [][SimNext]_vars

----------------------------------------------------------------------------
(* One strategy instance on its own: BaseStrategy.run and validateSignal *)

CooldownMinutes == 30   \* minCooldown = 30 * 60 * 1000 ms
MaxClock == 60          \* minutes of wall-clock time the model follows
ClockSteps == {1, 15, 30}

NoSignal == <<>>

\* What the checks of validateSignal that do not depend on the last signal
\* come to: the confidence floor, the trend confirmation, the distance of
\* MACD from the zero line and checkRiskParameters.
SignalChecks ==
    [confident : BOOLEAN, trendConfirmed : BOOLEAN, nearZero : BOOLEAN,
     riskOk : BOOLEAN]

\* Points the market-data window holds at most.
MaxWindow == 1

\* The constructor: the window starts empty; isActive comes with the
\* strategy's configuration.  returned and threw are how the latest call
\* of run() ended, generated and accepted what its calls of generateSignal
\* and validateSignal came to.
StrategyConstructed(type, active) ==
    [type |-> type, isActive |-> active, marketData |-> 0,
     lastSignal |-> NoSignal, now |-> 0, returned |-> NoSignal,
     threw |-> FALSE, generated |-> "none", accepted |-> FALSE]

\* Nothing of the latest run() is left once another operation has acted.
NotRunning(s) ==
    [s EXCEPT !.returned = NoSignal, !.threw = FALSE, !.generated = "none",
              !.accepted = FALSE]

\* How a call of run() ended.
Ran(s, generated, accepted, returned, threw) ==
    [s EXCEPT !.returned = returned, !.threw = threw,
              !.generated = generated, !.accepted = accepted]

\* createSignal: createdAt is the wall clock.
createSignal(side) == [side |-> side, createdAt |-> strat.now]

rsiValidateSignal(signal, lastSignal, checks) ==
    IF ~checks.confident THEN FALSE
    ELSE IF /\ lastSignal # NoSignal
            /\ signal.createdAt - lastSignal.createdAt < CooldownMinutes
            /\ lastSignal.side # signal.side
         THEN FALSE
         ELSE checks.riskOk

macdValidateSignal(signal, lastSignal, checks) ==
    IF ~checks.confident THEN FALSE
    ELSE IF ~checks.trendConfirmed THEN FALSE
    ELSE IF checks.nearZero THEN FALSE
    ELSE checks.riskOk

strategyValidateSignal(signal, checks) ==
    IF strat.type = "RSI_OVERSOLD_OVERBOUGHT"
    THEN rsiValidateSignal(signal, strat.lastSignal, checks)
    ELSE macdValidateSignal(signal, strat.lastSignal, checks)

\* generateSignal returned null.
Null == "null"

\* generateSignal rejected.
Throws == "throw"

\* run() that stores the generated signal before validating it.
strategyRunRecordsUnvalidated(generated, checks) ==
    /\ strat # NoStrategy
    /\ IF ~strat.isActive \/ strat.marketData = 0
       THEN strat' = Ran(strat, "none", FALSE, NoSignal, FALSE)
       ELSE IF generated = Throws
       THEN strat' = Ran(strat, Throws, FALSE, NoSignal, TRUE)
       ELSE IF generated = Null
       THEN strat' = Ran(strat, Null, FALSE, NoSignal, FALSE)
       ELSE LET signal == createSignal(generated)
                recorded == [strat EXCEPT !.lastSignal = signal]
            IN  IF strategyValidateSignal(signal, checks)
                THEN strat' = Ran(recorded, generated, TRUE, signal, FALSE)
                ELSE strat' = Ran(recorded, generated, FALSE, NoSignal, FALSE)
    /\ UNCHANGED <<engineVars, sv, sim, halted, ind>>

\* run(): generated is the side of the signal generateSignal comes up
\* with, Null, or Throws.
strategyRun(generated, checks) ==
    /\ strat # NoStrategy
    /\ IF ~strat.isActive \/ strat.marketData = 0
       THEN strat' = Ran(strat, "none", FALSE, NoSignal, FALSE)
       ELSE IF generated = Throws
       THEN strat' = Ran(strat, Throws, FALSE, NoSignal, TRUE)
       ELSE IF generated = Null
       THEN strat' = Ran(strat, Null, FALSE, NoSignal, FALSE)
       ELSE LET signal == createSignal(generated)
            IN  IF strategyValidateSignal(signal, checks)
                THEN strat' = Ran([strat EXCEPT !.lastSignal = signal],
                                  generated, TRUE, signal, FALSE)
                ELSE strat' = Ran(strat, generated, FALSE, NoSignal, FALSE)
    /\ UNCHANGED <<engineVars, sv, sim, halted, ind>>

\* updateMarketData replaces the window.
updateMarketData(points) ==
    /\ strat # NoStrategy
    /\ strat' = NotRunning([strat EXCEPT !.marketData = points])
    /\ UNCHANGED <<engineVars, sv, sim, halted, ind>>

\* addMarketData appends one point.
strategyAddMarketData ==
    /\ strat # NoStrategy
    /\ strat.marketData < MaxWindow
    /\ strat' = NotRunning([strat EXCEPT !.marketData = @ + 1])
    /\ UNCHANGED <<engineVars, sv, sim, halted, ind>>

setActive(active) ==
    /\ strat # NoStrategy
    /\ strat' = NotRunning([strat EXCEPT !.isActive = active])
    /\ UNCHANGED <<engineVars, sv, sim, halted, ind>>

\* Wall-clock time passes between two calls of run().
clockAdvance(minutes) ==
    /\ strat # NoStrategy
    /\ strat.now + minutes <= MaxClock
    /\ strat' = NotRunning([strat EXCEPT !.now = @ + minutes])
    /\ UNCHANGED <<engineVars, sv, sim, halted, ind>>

StrategyRun ==
    \E generated \in Sides \cup {Null, Throws}, checks \in SignalChecks :
        strategyRun(generated, checks)

UpdateMarketData == \E points \in 0..MaxWindow : updateMarketData(points)

SetActive == \E active \in BOOLEAN : setActive(active)

ClockAdvance == \E minutes \in ClockSteps : clockAdvance(minutes)

StrategyInit ==
    /\ EngineInit
    /\ sv = NoValidation
    /\ sim = NoSimulator
    /\ strat \in {StrategyConstructed(type, active) :
                       type \in getSupportedTypes, active \in BOOLEAN}
    /\ halted = FALSE
    /\ ind = NoIndicator

StrategyNext ==
    \/ StrategyRun
    \/ ClockAdvance
    \/ UpdateMarketData
    \/ strategyAddMarketData
    \/ SetActive

StrategySpec == StrategyInit /\ [][StrategyNext]_vars

----------------------------------------------------------------------------
(* Indicators and strategies: construction *)

IndicatorTypes == {"SMA", "EMA", "RSI", "MACD", "BOLLINGER_BANDS", "ATR"}

(* TradingStrategyType, and one tag outside the enum *)
StrategyTypeTags ==
    {"SIMPLE_MOVING_AVERAGE", "RSI_OVERSOLD_OVERBOUGHT", "MACD_CROSSOVER",
     "BOLLINGER_BANDS_SQUEEZE", "MEAN_REVERSION", "MOMENTUM", "CUSTOM",
     "UNKNOWN"}

Periods == {0 - 1, 0, 1, 2, 3}
StandardDeviations == {0, 2}

\* The parameter objects callers pass, per indicator type.
IndicatorParameters(type) ==
    CASE type = "MACD" ->
             [fastPeriod : Periods, slowPeriod : Periods,
              signalPeriod : {0, 1, 2}]
      [] type = "BOLLINGER_BANDS" ->
             [period : Periods, standardDeviation : StandardDeviations]
      [] OTHER -> [period : Periods]

StrategyParameters(type) ==
    CASE type = "MACD_CROSSOVER" ->
             [fastPeriod : Periods, slowPeriod : Periods,
              signalPeriod : {0, 1, 2}]
      [] OTHER -> [rsiPeriod : Periods]

\* JavaScript's `value || fallback` on a number: 0 is falsy.
OrDefault(value, fallback) == IF value = 0 THEN fallback ELSE value

Thrown(message) == [kind |-> "thrown", message |-> message]

Indicator(type, parameters) ==
    [kind |-> "indicator", type |-> type, parameters |-> parameters]

SMAIndicator(parameters) ==
    IF parameters.period <= 0
    THEN Thrown("SMA period must be greater than 0")
    ELSE Indicator("SMA", parameters)

EMAIndicator(parameters) ==
    IF parameters.period <= 0
    THEN Thrown("EMA period must be greater than 0")
    ELSE Indicator("EMA", parameters)

RSIIndicator(parameters) ==
    IF parameters.period <= 0
    THEN Thrown("RSI period must be greater than 0")
    ELSE Indicator("RSI", parameters)

ATRIndicator(parameters) ==
    IF parameters.period <= 0
    THEN Thrown("ATR period must be greater than 0")
    ELSE Indicator("ATR", parameters)

BollingerBandsIndicator(parameters) ==
    IF parameters.period <= 0
    THEN Thrown("Bollinger Bands period must be greater than 0")
    ELSE IF parameters.standardDeviation <= 0
    THEN Thrown("Standard deviation must be greater than 0")
    ELSE Indicator("BOLLINGER_BANDS", parameters)

MACDIndicator(parameters) ==
    IF \/ parameters.fastPeriod <= 0
       \/ parameters.slowPeriod <= 0
       \/ parameters.signalPeriod <= 0
    THEN Thrown("MACD periods must be greater than 0")
    ELSE IF parameters.fastPeriod >= parameters.slowPeriod
    THEN Thrown("Fast period must be less than slow period")
    ELSE Indicator("MACD", parameters)

\* `new XIndicator(symbol, timeFrame, parameters)`
newIndicator(type, parameters) ==
    CASE type = "SMA" -> SMAIndicator(parameters)
      [] type = "EMA" -> EMAIndicator(parameters)
      [] type = "RSI" -> RSIIndicator(parameters)
      [] type = "ATR" -> ATRIndicator(parameters)
      [] type = "BOLLINGER_BANDS" -> BollingerBandsIndicator(parameters)
      [] type = "MACD" -> MACDIndicator(parameters)

\* IndicatorFactory.create(type, symbol, timeFrame, parameters)
IndicatorFactoryCreate(type, parameters) ==
    CASE type = "SMA" ->
             SMAIndicator([period |-> OrDefault(parameters.period, 20)])
      [] type = "EMA" ->
             EMAIndicator([period |-> OrDefault(parameters.period, 20)])
      [] type = "RSI" ->
             RSIIndicator([period |-> OrDefault(parameters.period, 14)])
      [] type = "MACD" ->
             MACDIndicator(
                 [fastPeriod |-> OrDefault(parameters.fastPeriod, 12),
                  slowPeriod |-> OrDefault(parameters.slowPeriod, 26),
                  signalPeriod |-> OrDefault(parameters.signalPeriod, 9)])
      [] type = "BOLLINGER_BANDS" ->
             BollingerBandsIndicator(
                 [period |-> OrDefault(parameters.period, 20),
                  standardDeviation |->
                      OrDefault(parameters.standardDeviation, 2)])
      [] type = "ATR" ->
             ATRIndicator([period |-> OrDefault(parameters.period, 14)])
      [] OTHER -> Thrown("Unsupported indicator type")

Strategy(type, parameters) ==
    [kind |-> "strategy", type |-> type, parameters |-> parameters,
     indicator |-> NoObject]

\* The constructors copy the configured parameters with `|| default`; the
\* indicator is only built by initialize().
RSIStrategy(strategy) ==
    Strategy("RSI_OVERSOLD_OVERBOUGHT",
             [rsiPeriod |-> OrDefault(strategy.parameters.rsiPeriod, 14)])

MACDStrategy(strategy) ==
    Strategy("MACD_CROSSOVER",
             [fastPeriod |-> OrDefault(strategy.parameters.fastPeriod, 12),
              slowPeriod |-> OrDefault(strategy.parameters.slowPeriod, 26),
              signalPeriod |->
                  OrDefault(strategy.parameters.signalPeriod, 9)])

isSupported(type) == type \in getSupportedTypes

\* StrategyFactory.create with a strategy behind the MOMENTUM tag.
StrategyFactoryCreateMomentum(strategy) ==
    CASE strategy.type \in {"RSI_OVERSOLD_OVERBOUGHT", "MOMENTUM"} ->
             RSIStrategy(strategy)
      [] strategy.type = "MACD_CROSSOVER" -> MACDStrategy(strategy)
      [] strategy.type \in {"SIMPLE_MOVING_AVERAGE", "BOLLINGER_BANDS_SQUEEZE",
                            "MEAN_REVERSION", "CUSTOM"} ->
             Thrown("not implemented yet")
      [] OTHER -> Thrown("Unknown strategy type")

\* StrategyFactory.create(strategy)
StrategyFactoryCreate(strategy) ==
    CASE strategy.type = "RSI_OVERSOLD_OVERBOUGHT" -> RSIStrategy(strategy)
      [] strategy.type = "MACD_CROSSOVER" -> MACDStrategy(strategy)
      [] strategy.type \in {"SIMPLE_MOVING_AVERAGE", "BOLLINGER_BANDS_SQUEEZE",
                            "MEAN_REVERSION", "MOMENTUM", "CUSTOM"} ->
             Thrown("not implemented yet")
      [] OTHER -> Thrown("Unknown strategy type")

\* BaseStrategy.initialize -> initializeIndicators, with no market data yet
initializeIndicators(strategy) ==
    IF strategy.type = "RSI_OVERSOLD_OVERBOUGHT"
    THEN RSIIndicator([period |-> strategy.parameters.rsiPeriod])
    ELSE MACDIndicator(strategy.parameters)

Request(via, type, parameters) ==
    [kind |-> "request", via |-> via, type |-> type,
     parameters |-> parameters]

\* A behaviour follows one object: it is constructed once and, when it is
\* an indicator, calculates once (calculate starts from an empty result
\* list each time it is called).
NewIndicator ==
    /\ ind = NoIndicator
    /\ \E type \in IndicatorTypes :
        \E parameters \in IndicatorParameters(type) :
            /\ ind' = [request |-> Request("new", type, parameters),
                       obj |-> newIndicator(type, parameters),
                       out |-> NotCalculated]
            /\ UNCHANGED <<engineVars, sv, sim, strat, halted>>

FactoryCreateIndicator ==
    /\ ind = NoIndicator
    /\ \E type \in IndicatorTypes :
        \E parameters \in IndicatorParameters(type) :
            /\ ind' = [request |-> Request("IndicatorFactory", type,
                                           parameters),
                       obj |-> IndicatorFactoryCreate(type, parameters),
                       out |-> NotCalculated]
            /\ UNCHANGED <<engineVars, sv, sim, strat, halted>>

FactoryCreateStrategy ==
    /\ ind = NoIndicator
    /\ \E type \in StrategyTypeTags :
        \E parameters \in StrategyParameters(type) :
            /\ ind' = [request |-> Request("StrategyFactory", type,
                                           parameters),
                       obj |-> StrategyFactoryCreate(
                                   [type |-> type,
                                    parameters |-> parameters]),
                       out |-> NotCalculated]
            /\ UNCHANGED <<engineVars, sv, sim, strat, halted>>

\* initialize() rejects when the indicator's constructor throws.
InitializeStrategy ==
    /\ ind.obj.kind = "strategy"
    /\ ind.obj.indicator = NoObject
    /\ ind' = [ind EXCEPT !.obj.indicator = initializeIndicators(ind.obj)]
    /\ UNCHANGED <<engineVars, sv, sim, strat, halted>>

----------------------------------------------------------------------------
(* Indicators: calculate *)

MaxSeries == 5          \* candles in one input series
FractionDigits == 9     \* decimal digits a number carries

(* Prices and indicator values are fixed-point numbers with FractionDigits
   decimal digits after the point; a division rounds to the nearest such
   number, as a floating-point division rounds to the nearest double.  RSI
   values, which lie between 0 and 100, are kept in hundredths, the
   precision calculate reports them with. *)

RECURSIVE Pow10(_)
Pow10(n) == IF n <= 0 THEN 1 ELSE 10 * Pow10(n - 1)

DivRound(a, b) ==
    IF a < 0
    THEN 0 - ((2 * (0 - a) + b) \div (2 * b))
    ELSE (2 * a + b) \div (2 * b)

RECURSIVE Sum(_)
Sum(values) ==
    IF values = <<>> THEN 0 ELSE Head(values) + Sum(Tail(values))

Max2(a, b) == IF a >= b THEN a ELSE b

ClosePrices == {0, 20, 60}

Series == UNION {[1..n -> ClosePrices] : n \in 0..MaxSeries}

\* IndicatorInput candles of a close series: timestamps in input order.
Inputs(closes) ==
    [i \in 1..Len(closes) |->
        [timestamp |-> i, high |-> closes[i] + 10, low |-> closes[i],
         close |-> closes[i]]]

\* MathUtils.roundToDecimalPlaces: Decimal.toDecimalPlaces rounds half up.
roundToDecimalPlaces(value, decimalPlaces) ==
    LET unit == Pow10(FractionDigits - decimalPlaces)
    IN  DivRound(value, unit) * unit

calculateSMA(values, period) ==
    IF Len(values) < period THEN <<>>
    ELSE [i \in 1..(Len(values) - period + 1) |->
             DivRound(Sum(SubSeq(values, i, i + period - 1)), period)]

RECURSIVE emaLoop(_, _, _, _)
emaLoop(values, period, i, results) ==
    IF i > Len(values) THEN results
    ELSE LET last == results[Len(results)]
         IN  emaLoop(values, period, i + 1,
                     Append(results,
                            DivRound((values[i] - last) * 2, period + 1)
                                + last))

calculateEMA(values, period) ==
    IF Len(values) < period THEN <<>>
    ELSE emaLoop(values, period, period + 1,
                 <<DivRound(Sum(SubSeq(values, 1, period)), period)>>)

calculateTrueRange(high, low, close) ==
    IF Len(high) # Len(low) \/ Len(low) # Len(close) \/ Len(high) < 2
    THEN <<>>
    ELSE [i \in 1..(Len(high) - 1) |->
             Max2(high[i + 1] - low[i + 1],
                  Max2(Abs(high[i + 1] - close[i]),
                       Abs(low[i + 1] - close[i])))]

\* validateInputs that only rejects an empty series.
validateInputsNonEmpty(inputs, minLength) == Len(inputs) >= 1

\* BaseIndicator.validateInputs: TRUE when it does not throw
validateInputs(inputs, minLength) == Len(inputs) >= minLength

createResult(timestamp, value, metadata) ==
    [timestamp |-> timestamp, value |-> value, metadata |-> metadata]

ClosesOf(inputs) == [i \in 1..Len(inputs) |-> inputs[i].close]

smaCalculate(period, inputs) ==
    LET smaValues == calculateSMA(ClosesOf(inputs), period)
    IN  [i \in 1..Len(smaValues) |->
            createResult(inputs[i + period - 1].timestamp,
                         roundToDecimalPlaces(smaValues[i], 8),
                         [period |-> period])]

emaCalculate(period, inputs) ==
    LET emaValues == calculateEMA(ClosesOf(inputs), period)
    IN  [i \in 1..Len(emaValues) |->
            createResult(inputs[i + period - 1].timestamp,
                         roundToDecimalPlaces(emaValues[i], 8),
                         [period |-> period])]

\* The main value of a Bollinger Bands result is the middle band.
bollingerCalculate(period, inputs) ==
    LET smaValues == calculateSMA(ClosesOf(inputs), period)
    IN  [i \in 1..Len(smaValues) |->
            createResult(inputs[i + period - 1].timestamp,
                         roundToDecimalPlaces(smaValues[i], 8),
                         [period |-> period])]

atrCalculate(period, inputs) ==
    LET trueRanges ==
            calculateTrueRange([i \in 1..Len(inputs) |-> inputs[i].high],
                               [i \in 1..Len(inputs) |-> inputs[i].low],
                               ClosesOf(inputs))
        atrValues == calculateEMA(trueRanges, period)
    IN  [i \in 1..Len(atrValues) |->
            createResult(inputs[i + period].timestamp,
                         roundToDecimalPlaces(atrValues[i], 8),
                         [period |-> period])]

\* RSIIndicator.calculateRSI, in hundredths: 100 - 100 / (1 + rs) with
\* rs = avgGain / avgLoss, clamped to 0..100.
calculateRSI(prices, period) ==
    IF Len(prices) < period + 1 THEN <<>>
    ELSE LET change(i) == prices[i + 1] - prices[i]
             gains == [i \in 1..(Len(prices) - 1) |->
                          IF change(i) > 0 THEN change(i) ELSE 0]
             losses == [i \in 1..(Len(prices) - 1) |->
                           IF change(i) < 0 THEN Abs(change(i)) ELSE 0]
             avgGains == calculateEMA(gains, period)
             avgLosses == calculateEMA(losses, period)
         IN  [i \in 1..Len(avgGains) |->
                 IF avgLosses[i] = 0 THEN 10000
                 ELSE DivRound(10000 * avgGains[i],
                               avgGains[i] + avgLosses[i])]

rsiCalculate(period, inputs) ==
    LET rsiValues == calculateRSI(ClosesOf(inputs), period)
    IN  [i \in 1..Len(rsiValues) |->
            createResult(inputs[i + period].timestamp, rsiValues[i],
                         [period |-> period])]

\* The crossover flag of result i: the raw histogram[i - 1] against the
\* rounded histogram[i].
crossover(histogram, i) ==
    LET histogramValue == roundToDecimalPlaces(histogram[i], 8)
    IN  IF i > 1
        THEN IF histogram[i - 1] <= 0 /\ histogramValue > 0 THEN "bullish"
             ELSE IF histogram[i - 1] >= 0 /\ histogramValue < 0
             THEN "bearish"
             ELSE Null
        ELSE Null

macdCalculate(parameters, inputs) ==
    LET closePrices == ClosesOf(inputs)
        fastEMA == calculateEMA(closePrices, parameters.fastPeriod)
        slowEMA == calculateEMA(closePrices, parameters.slowPeriod)
        startIndex == parameters.slowPeriod - parameters.fastPeriod
        macdLine == [i \in 1..Len(slowEMA) |->
                        fastEMA[i + startIndex] - slowEMA[i]]
        signalLine == calculateEMA(macdLine, parameters.signalPeriod)
        macdStartIndex == Len(macdLine) - Len(signalLine)
        histogram == [i \in 1..Len(signalLine) |->
                         macdLine[i + macdStartIndex] - signalLine[i]]
        resultStartIndex == Len(inputs) - Len(histogram)
    IN  [i \in 1..Len(histogram) |->
            createResult(
                inputs[resultStartIndex + i].timestamp,
                roundToDecimalPlaces(histogram[i], 8),
                [macd |-> roundToDecimalPlaces(
                              macdLine[macdStartIndex + i], 8),
                 signal |-> roundToDecimalPlaces(signalLine[i], 8),
                 histogram |-> roundToDecimalPlaces(histogram[i], 8),
                 crossover |-> crossover(histogram, i)])]

\* The minLength each calculate hands to validateInputs.
minRequired(indicator) ==
    CASE indicator.type \in {"SMA", "EMA", "BOLLINGER_BANDS"} ->
             indicator.parameters.period
      [] indicator.type \in {"RSI", "ATR"} ->
             indicator.parameters.period + 1
      [] indicator.type = "MACD" ->
             indicator.parameters.slowPeriod
                 + indicator.parameters.signalPeriod - 1

calculate(indicator, inputs) ==
    IF ~validateInputs(inputs, minRequired(indicator))
    THEN [kind |-> "thrown", inputs |-> inputs,
          message |-> "Insufficient data"]
    ELSE [kind |-> "returned", inputs |-> inputs,
          results |->
              CASE indicator.type = "SMA" ->
                       smaCalculate(indicator.parameters.period, inputs)
                [] indicator.type = "EMA" ->
                       emaCalculate(indicator.parameters.period, inputs)
                [] indicator.type = "BOLLINGER_BANDS" ->
                       bollingerCalculate(indicator.parameters.period,
                                          inputs)
                [] indicator.type = "RSI" ->
                       rsiCalculate(indicator.parameters.period, inputs)
                [] indicator.type = "ATR" ->
                       atrCalculate(indicator.parameters.period, inputs)
                [] indicator.type = "MACD" ->
                       macdCalculate(indicator.parameters, inputs)]

Calculate ==
    /\ ind.obj.kind = "indicator"
    /\ ind.out = NotCalculated
    /\ \E closes \in Series :
           ind' = [ind EXCEPT !.out = calculate(ind.obj, Inputs(closes))]
    /\ UNCHANGED <<engineVars, sv, sim, strat, halted>>

IndicatorNext ==
    \/ NewIndicator
    \/ FactoryCreateIndicator
    \/ FactoryCreateStrategy
    \/ InitializeStrategy
    \/ Calculate

IndicatorSpec == Init /\ [][IndicatorNext]_vars

----------------------------------------------------------------------------
(* RSIStrategy.generateSignal *)

(* RSI values, thresholds and confidences are in hundredths, the
   resolution RSIIndicator.calculate rounds to. *)
RsiValues ==
    {0, 1250, 1999, 2000, 2001, 3000, 3001, 5000, 6999, 7000, 8250, 10000}

\* Configured strategy parameters; 0 stands for a parameter left out.
RsiStrategyParameters ==
    [oversold : {0, 2000, 7500}, overbought : {0, 7000, 2000},
     minConfidence : {0, 6000, 8000, 9600}]

\* Closing prices of the newest candle; 0 also stands for an empty window.
CurrentPrices == {0, 50}

NullSignal == [kind |-> "null"]

\* The RSIStrategy constructor, and the fields generateSignal reads.
RsiStrategyConstructed(parameters) ==
    [kind |-> "rsiStrategy",
     parameters |-> [oversold |-> OrDefault(parameters.oversold, 3000),
                     overbought |-> OrDefault(parameters.overbought, 7000),
                     minConfidence |->
                         OrDefault(parameters.minConfidence, 7000)],
     rsiIndicator |-> NoObject,
     latest |-> NoObject,
     currentPrice |-> 0]

\* RSIIndicator.create with the strategy's thresholds.
rsiInitializeIndicators(strategy) ==
    [kind |-> "indicator",
     overbought |-> OrDefault(strategy.parameters.overbought, 7000),
     oversold |-> OrDefault(strategy.parameters.oversold, 3000)]

getSignal(indicator, rsiValue) ==
    IF rsiValue >= indicator.overbought THEN "overbought"
    ELSE IF rsiValue <= indicator.oversold THEN "oversold"
    ELSE "neutral"

Min2(a, b) == IF a <= b THEN a ELSE b

GeneratedSignal(side, confidence) ==
    [kind |-> "signal", side |-> side,
     confidence |-> Max2(0, Min2(10000, confidence))]

\* generateSignal that does not compare the confidence with minConfidence.
generateSignalAnyConfidence(strategy) ==
    IF strategy.rsiIndicator = NoObject
    THEN Thrown("RSI indicator not initialized")
    ELSE IF strategy.latest = NoObject THEN NullSignal
    ELSE IF strategy.currentPrice = 0 THEN NullSignal
    ELSE LET rsiValue == strategy.latest.value
             signal == strategy.latest.signal
             p == strategy.parameters
         IN  IF signal = "oversold" /\ rsiValue <= p.oversold
             THEN GeneratedSignal("buy",
                      Min2(9500, 6000 + (p.oversold - rsiValue) * 2))
             ELSE IF signal = "overbought" /\ rsiValue >= p.overbought
             THEN GeneratedSignal("sell",
                      Min2(9500, 6000 + (rsiValue - p.overbought) * 2))
             ELSE NullSignal

generateSignal(strategy) ==
    IF strategy.rsiIndicator = NoObject
    THEN Thrown("RSI indicator not initialized")
    ELSE IF strategy.latest = NoObject THEN NullSignal
    ELSE IF strategy.currentPrice = 0 THEN NullSignal
    ELSE LET rsiValue == strategy.latest.value
             signal == strategy.latest.signal
             p == strategy.parameters
         IN  IF signal = "oversold" /\ rsiValue <= p.oversold
             THEN LET confidence ==
                          Min2(9500, 6000 + (p.oversold - rsiValue) * 2)
                  IN  IF confidence >= p.minConfidence
                      THEN GeneratedSignal("buy", confidence)
                      ELSE NullSignal
             ELSE IF signal = "overbought" /\ rsiValue >= p.overbought
             THEN LET confidence ==
                          Min2(9500, 6000 + (rsiValue - p.overbought) * 2)
                  IN  IF confidence >= p.minConfidence
                      THEN GeneratedSignal("sell", confidence)
                      ELSE NullSignal
             ELSE NullSignal

RsiInit ==
    /\ EngineInit
    /\ sv = NoValidation
    /\ sim = NoSimulator
    /\ strat = NoStrategy
    /\ halted = FALSE
    /\ ind \in {[request |-> NoObject,
                 obj |-> RsiStrategyConstructed(parameters),
                 out |-> NotCalculated] :
                    parameters \in RsiStrategyParameters}

\* initialize() builds the indicator.
RsiInitialize ==
    /\ ind.obj.rsiIndicator = NoObject
    /\ ind' = [ind EXCEPT !.obj.rsiIndicator = rsiInitializeIndicators(ind.obj),
                          !.out = NotCalculated]
    /\ UNCHANGED <<engineVars, sv, sim, strat, halted>>

\* The indicator recalculates: its latest result carries the RSI value and
\* the classification getSignal gives it.
RsiCalculated ==
    /\ ind.obj.rsiIndicator # NoObject
    /\ \E rsiValue \in RsiValues :
          ind' = [ind EXCEPT
                     !.obj.latest =
                         [kind |-> "result", value |-> rsiValue,
                          signal |-> getSignal(ind.obj.rsiIndicator,
                                               rsiValue)],
                     !.out = NotCalculated]
    /\ UNCHANGED <<engineVars, sv, sim, strat, halted>>

\* A candle arrives, or the window is replaced.
RsiPriceArrives ==
    /\ \E price \in CurrentPrices :
          ind' = [ind EXCEPT !.obj.currentPrice = price,
                             !.out = NotCalculated]
    /\ UNCHANGED <<engineVars, sv, sim, strat, halted>>

GenerateSignal ==
    /\ ind.out = NotCalculated
    /\ ind' = [ind EXCEPT !.out = generateSignal(ind.obj)]
    /\ UNCHANGED <<engineVars, sv, sim, strat, halted>>

RsiNext ==
    \/ RsiInitialize
    \/ RsiCalculated
    \/ RsiPriceArrives
    \/ GenerateSignal

RsiSpec == RsiInit /\ [][RsiNext]_vars

----------------------------------------------------------------------------
(* SafetyEngine.emergencyStop next to a live pipeline *)

\* emergencyStop() writes a line to the console and returns; the steps its
\* comment lists are not implemented.
emergencyStop ==
    /\ ~halted
    /\ halted' = TRUE
    /\ events' = <<>>
    /\ UNCHANGED <<isRunning, config, strategies, exchanges, activeOrders,
                   metrics, timers, venue, dispatches, sweeps, passes, sv, sim,
                   strat, ind>>

EmergencyStop == emergencyStop

EmergencyNext ==
    \/ Start
    \/ AddStrategy
    \/ ProcessMarketData
    \/ EvaluateStrategy
    \/ PlaceOrderSettled
    \/ EmergencyStop

EmergencySpec == Init /\ [][EmergencyNext]_vars

----------------------------------------------------------------------------
(* Properties *)

EngineState == <<isRunning, config, strategies, exchanges, activeOrders,
                 metrics, timers, venue, dispatches, sweeps, passes>>

\* The connector calls of the in-flight slots of f after the step.
CallsIssued(f) ==
    UNION {IF f[i] = Idle THEN {} ELSE f[i][1].pending : i \in DOMAIN f}

\* The call was issued on the connector that holds the order.
OwnerCalled(f, orderId) ==
    \E c \in CallsIssued(f) :
        c.orderId = orderId /\ c.conn = venue[orderId].conn

\* C1: no order returned by getActiveOrders() has status FILLED, CANCELLED,
\* REJECTED or EXPIRED, in any reachable state of the engine.
C1_RegistryHoldsNoTerminalOrder ==
    \A o \in getActiveOrders : o.status \notin TerminalStatus

\* C2: the step in which stop() takes a running engine down issues
\* cancelOrder on the owning connector for every order in the registry at
\* that moment, and when engineStopped is emitted no order whose cancel
\* succeeded (the venue holds it as CANCELLED) is left in the registry.
C2_StopCancelsEveryActiveOrder ==
    [][ /\ (isRunning /\ ~isRunning') =>
              \A k \in DOMAIN activeOrders :
                  OwnerCalled(sweeps', activeOrders[k].id)
        /\ Emitted("engineStopped")' =>
              \A k \in DOMAIN activeOrders' :
                  venue'[activeOrders'[k].id].status # "cancelled"
      ]_vars

\* C3: a monitoring tick of a running engine re-fetches, from its owning
\* connector, every registry order that connector reports in a terminal
\* status, and the successful fetch of a terminal order removes it from the
\* registry and emits orderCompleted for it.
C3_TickCollectsTerminalOrders ==
    [][ /\ (isRunning /\ monitorTick) =>
              \A k \in DOMAIN activeOrders :
                  venue[activeOrders[k].id].status \in TerminalStatus
                      => OwnerCalled(passes', activeOrders[k].id)
        /\ \A i \in BusySlots(passes) : \A c \in passes[i][1].pending :
              (/\ getOrderSettled(i, c, "ok")
               /\ venue[c.orderId].status \in TerminalStatus)
                  => /\ c.orderId \notin DOMAIN activeOrders'
                     /\ EmittedFor("orderCompleted", c.orderId)'
      ]_vars

\* C4: in every state getMetrics() can observe, successRate equals
\* executedTrades / totalSignals when totalSignals > 0, and is 0 when
\* totalSignals = 0.
C4_SuccessRateIsRatio ==
    LET m == getMetrics
    IN  IF m.totalSignals > 0
        THEN m.successRate.num * m.totalSignals
                 = m.executedTrades * m.successRate.den
        ELSE m.successRate.num = 0

\* What every failed placement leaves alone: the registry, the venue and
\* the executed counter; and nothing is thrown out of the dispatch.
PlacementAddsNothing ==
    /\ activeOrders' = activeOrders
    /\ venue' = venue
    /\ metrics'.executedTrades = metrics.executedTrades
    /\ ~Emitted("throw")'

C6_VerdictIsHighOrCritical ==
    sv.result # NotValidated =>
        LET r == sv.result
            pv == IF sv.context.portfolioValue = 0 THEN DefaultPortfolioValue
                  ELSE sv.context.portfolioValue
            blocking ==
                \/ EstimatedOrderValue * 100 > MaxPositionSizePct * pv
                \/ sv.context.currentDrawdown > MaxDrawdownPct
                \/ \E o \in sv.context.activeOrders :
                       /\ o.symbol = sv.signal.symbol
                       /\ o.status = "open"
                       /\ o.side # sv.signal.side
        IN  /\ Len(r.checks) = 5
            /\ r.isValid = ~(\E i \in DOMAIN r.checks :
                                /\ ~r.checks[i].isValid
                                /\ r.checks[i].severity \in {"high", "critical"})
            /\ r.isValid = ~blocking

\* Only high-severity checks fail (position size and order conflict), the
\* medium ones fail too, the critical one passes: the verdict is FALSE.
C6_Witness ==
    /\ sv.result # NotValidated
    /\ ~sv.result.checks[1].isValid
    /\ ~sv.result.checks[2].isValid
    /\ sv.result.checks[3].isValid
    /\ ~sv.result.checks[4].isValid
    /\ ~sv.result.checks[5].isValid
    /\ ~sv.result.isValid

\* The rest of a dispatch after strategy s is done: the others are still
\* in the snapshot, to be fed and run.
OthersStillEvaluated(i, others) ==
    others # {} => /\ dispatches'[i] # Idle
                   /\ dispatches'[i][1].todo = others

\* C7 as stated: whichever part of evaluating a strategy throws (data feed,
\* run() or signal handling), strategyError tagged with its id is emitted,
\* the other matching strategies are still evaluated, and the dispatch does
\* not throw.
C7_AnyFailureIsStrategyError ==
    [][ \A i \in BusySlots(dispatches) : \A s \in StrategyIdSet :
          LET d == dispatches[i][1]
              failed ==
                  \/ \E outcome \in {"feedThrows", "runThrows"} :
                        evaluateStrategy(i, s, outcome, "", 0)
                  \/ /\ d.waiting # <<>>
                     /\ d.waiting[1].strategyId = s
                     /\ placeOrderSettled(i, "throw")
          IN  failed => /\ EmittedFor("strategyError", s)'
                        /\ ~Emitted("throw")'
                        /\ OthersStillEvaluated(i, d.todo \ {s})
      ]_vars

\* C7 as the code has it: a throw of the data feed or of run() emits
\* strategyError tagged with the strategy's id; a throw while its signal is
\* handled emits signalProcessingError for it and no strategyError; either
\* way the other strategies of the snapshot stay to be fed and run, a
\* dispatch ends only when its snapshot is used up, and the dispatch does
\* not throw.
C7_StrategyFailureIsIsolated ==
    [][ \A i \in BusySlots(dispatches) :
          LET d == dispatches[i][1]
          IN
          /\ \A s \in StrategyIdSet :
                /\ (\E outcome \in {"feedThrows", "runThrows"} :
                        evaluateStrategy(i, s, outcome, "", 0))
                     => /\ events' = <<Event("strategyError", s, "")>>
                        /\ OthersStillEvaluated(i, d.todo \ {s})
                /\ (/\ d.waiting # <<>>
                    /\ d.waiting[1].strategyId = s
                    /\ placeOrderSettled(i, "throw"))
                     => /\ EmittedFor("signalProcessingError", s)'
                        /\ ~Emitted("strategyError")'
                        /\ ~Emitted("throw")'
                        /\ OthersStillEvaluated(i, d.todo)
          /\ dispatches'[i] = Idle => Cardinality(d.todo) <= 1
          /\ dispatches'[i] # Idle =>
                /\ dispatches'[i][1].todo \subseteq d.todo
                /\ Cardinality(d.todo \ dispatches'[i][1].todo) <= 1
      ]_vars

\* Strategy s1 threw in a dispatch and s2 is still in the snapshot.
C7_Witness ==
    /\ events = <<Event("strategyError", "s1", "")>>
    /\ \E i \in BusySlots(dispatches) : "s2" \in dispatches[i][1].todo

StartFailed == events = <<Event("throw", "start", "")>>

\* C8: start() on a running engine fails and changes nothing (still
\* running, no engineStarted, no further monitoring timer); a timer is only
\* ever created by a start() from stopped, which makes the engine running;
\* stop() on a running engine makes it stopped.
C8_StartWhileRunningFails ==
    [][ /\ (isRunning /\ start) =>
              /\ StartFailed'
              /\ EngineState' = EngineState
        /\ StartFailed' => isRunning /\ isRunning' /\ timers' = timers
        /\ (~isRunning /\ start) =>
              isRunning' /\ events' = <<Event("engineStarted", "", "")>>
        /\ Emitted("engineStarted")' => ~isRunning /\ isRunning'
        /\ timers' > timers =>
              ~isRunning /\ isRunning' /\ timers' = timers + 1
        /\ (isRunning /\ stop) => ~isRunning'
      ]_vars

\* start() was just refused on a running engine that has its one timer.
C8_Witness ==
    /\ StartFailed
    /\ isRunning
    /\ timers = 1

\* C9: stop() on a stopped engine changes nothing and emits nothing: no
\* cancelOrder is issued and no engineStopped is emitted; cancelOrder calls
\* are only ever issued by a stop() of a running engine, whose next stop()
\* therefore finds the engine stopped and is this no-op.
C9_StopWhileStoppedIsNoOp ==
    [][ /\ (~isRunning /\ stop) =>
              /\ EngineState' = EngineState
              /\ events' = <<>>
        /\ (CallsIssued(sweeps') \ CallsIssued(sweeps) # {}) =>
              isRunning /\ ~isRunning'
        /\ Emitted("engineStopped")' =>
              isRunning \/ BusySlots(sweeps) # {}
        /\ (isRunning /\ stop) => ~isRunning'
      ]_vars

\* A stopped engine with an order stop() could cancel, and no stop() in
\* flight: the state a stop() leaves behind and a second stop() finds.
C9_Witness ==
    /\ ~isRunning
    /\ ConnectorCalls # {}
    /\ BusySlots(sweeps) = {}
    /\ events = <<>>
    /\ timers > 0

PaperModeTouchesNoConnector ==
    config.enablePaperTrading =>
        /\ venue = EmptyMap
        /\ activeOrders = EmptyMap
        /\ \A i \in BusySlots(dispatches) : dispatches[i][1].waiting = <<>>
        /\ BusySlots(sweeps) = {}
        /\ BusySlots(passes) = {}

StatusRank(status) ==
    IF status = "pending" THEN 0 ELSE IF status = "open" THEN 1 ELSE 2

\* C11: on the simulated venue an order's status only moves forward along
\* PENDING -> OPEN -> terminal: whenever a step changes the status of an
\* order it moves to a later stage, so a FILLED or CANCELLED order never
\* changes status again.
C11_SimulatorStatusIsOneWay ==
    [][ \A id \in DOMAIN sim.orders :
            sim'.orders[id].status # sim.orders[id].status =>
                StatusRank(sim.orders[id].status)
                    < StatusRank(sim'.orders[id].status)
      ]_vars

\* C12: a market BUY of size s on a symbol followed, with no price tick in
\* between, by a market SELL of the same size on that symbol returns the
\* base and the quote balance to their values before the BUY.
C12_RoundTripRestoresBalances ==
    [][ \A symbol \in Symbols : \A s \in SimSizes :
            (/\ sim.last # NoRequest
             /\ sim.last.success
             /\ sim.last.request = [symbol |-> symbol, side |-> "buy",
                                    type |-> "market", size |-> s]
             /\ simPlaceOrder([symbol |-> symbol, side |-> "sell",
                               type |-> "market", size |-> s]))
                => /\ sim'.balances[BaseCurrency(symbol)]
                          = sim.last.before[BaseCurrency(symbol)]
                   /\ sim'.balances[QuoteCurrency(symbol)]
                          = sim.last.before[QuoteCurrency(symbol)]
      ]_vars

\* C13: for every strategy, two consecutive signals returned by run() have
\* opposite sides only if the later one was created at least the cooldown
\* interval (30 minutes) after the earlier one.
C13_ReversalOnlyAfterCooldown ==
    [][ (/\ strat'.returned # NoSignal
         /\ strat.lastSignal # NoSignal
         /\ strat'.returned.side # strat.lastSignal.side)
            => strat'.returned.createdAt - strat.lastSignal.createdAt
                   >= CooldownMinutes
      ]_vars

\* The step evaluates strategy s in dispatch i: feeds it the data and
\* calls its run().
Evaluates(i, s) ==
    \/ \E outcome \in StepOutcomes \ {"signal"} :
          evaluateStrategy(i, s, outcome, "", 0)
    \/ \E side \in Sides, confidence \in Confidences :
          evaluateStrategy(i, s, "signal", side, confidence)

\* What removeStrategy of a registered id does and leaves alone.
RemovesRegistered(id) ==
    /\ id \notin DOMAIN strategies'
    /\ id \notin DOMAIN exchanges'
    /\ DOMAIN strategies' = DOMAIN strategies \ {id}
    /\ DOMAIN exchanges' = DOMAIN exchanges \ {id}
    /\ metrics'.activeStrategies = Cardinality(DOMAIN strategies')
    /\ events' = <<Event("strategyRemoved", id, "")>>
    /\ activeOrders' = activeOrders
    /\ venue' = venue
    /\ sweeps' = sweeps
    /\ passes' = passes
    /\ isRunning' = isRunning

C15_EmergencyStopCancelsAndHalts ==
    [][ /\ (~halted /\ halted') =>
              \A id \in DOMAIN venue :
                  venue[id].status \in {"pending", "open"}
                      => OwnerCalled(sweeps', id)
        /\ halted =>
              /\ DOMAIN venue' = DOMAIN venue
              /\ DOMAIN activeOrders' \subseteq DOMAIN activeOrders
              /\ \A i \in DOMAIN dispatches :
                    (dispatches'[i] # Idle /\ dispatches'[i][1].waiting # <<>>)
                        => (dispatches[i] # Idle
                            /\ dispatches[i][1].waiting # <<>>)
      ]_vars

\* A period the caller configured that no indicator accepts.
InvalidParameters(parameters) ==
    \/ \E f \in DOMAIN parameters \ {"standardDeviation"} : parameters[f] <= 0
    \/ /\ "fastPeriod" \in DOMAIN parameters
       /\ parameters.fastPeriod >= parameters.slowPeriod

\* C16: constructing a strategy or an indicator of a supported type with
\* a period that is zero or negative, or with a MACD fast period that is
\* not below the slow period, throws at construction: no object is made
\* of such a configuration, with or without a default in its place.
C16_InvalidParametersThrowAtConstruction ==
    (/\ ind.request # NoObject
     /\ ind.request.via = "StrategyFactory" => isSupported(ind.request.type)
     /\ InvalidParameters(ind.request.parameters))
        => ind.obj.kind = "thrown"

\* The period P of an indicator; MACD has three, and its P is read as the
\* shortest series its slow line and signal line need together.
PeriodOf(indicator) ==
    IF indicator.type = "MACD"
    THEN indicator.parameters.slowPeriod
             + indicator.parameters.signalPeriod - 1
    ELSE indicator.parameters.period

\* The shortest series each indicator can work on.
MinRequired(indicator) ==
    CASE indicator.type \in {"SMA", "EMA", "BOLLINGER_BANDS"} ->
             indicator.parameters.period
      [] indicator.type \in {"RSI", "ATR"} ->
             indicator.parameters.period + 1
      [] indicator.type = "MACD" ->
             indicator.parameters.slowPeriod
                 + indicator.parameters.signalPeriod - 1

\* calculate returned length - minRequired + 1 results, the last one
\* stamped with the last input's timestamp.
ReturnedAligned(out, minimum) ==
    /\ out.kind = "returned"
    /\ Len(out.results) = Len(out.inputs) - minimum + 1
    /\ Len(out.results) > 0 =>
           out.results[Len(out.results)].timestamp
               = out.inputs[Len(out.inputs)].timestamp

\* C17 as stated: for every indicator with period P, calculate on a
\* series shorter than P fails with the insufficient-data error, and on
\* every series of length P or more it returns exactly
\* length - minRequired + 1 results, the last carrying the timestamp of
\* the last input.
C17_PeriodBoundsCalculate ==
    ind.out # NotCalculated =>
        /\ Len(ind.out.inputs) < PeriodOf(ind.obj) =>
               (ind.out.kind = "thrown"
                    /\ ind.out.message = "Insufficient data")
        /\ Len(ind.out.inputs) >= PeriodOf(ind.obj) =>
               ReturnedAligned(ind.out, MinRequired(ind.obj))

\* C17, amended: calculate fails with the insufficient-data error exactly
\* on the series shorter than the indicator's minimum length (P for SMA,
\* EMA and Bollinger Bands, P + 1 for RSI and ATR, slow + signal - 1 for
\* MACD), and on every other series returns exactly
\* length - minRequired + 1 results, the last carrying the timestamp of
\* the last input.
C17_MinRequiredBoundsCalculate ==
    ind.out # NotCalculated =>
        /\ Len(ind.out.inputs) < MinRequired(ind.obj) =>
               (ind.out.kind = "thrown"
                    /\ ind.out.message = "Insufficient data")
        /\ Len(ind.out.inputs) >= MinRequired(ind.obj) =>
               ReturnedAligned(ind.out, MinRequired(ind.obj))

\* An RSI indicator was given more candles than it needs and returned
\* several results.
C17_Witness ==
    /\ ind.obj.kind = "indicator"
    /\ ind.obj.type = "RSI"
    /\ ind.out.kind = "returned"
    /\ Len(ind.out.inputs) > MinRequired(ind.obj)
    /\ Len(ind.out.results) >= 2

\* The crossover flag the reported histogram values call for on result i.
ReportedTransition(results, i) ==
    LET previous == results[i - 1].metadata.histogram
        current == results[i].metadata.histogram
    IN  IF previous <= 0 /\ current > 0 THEN "bullish"
        ELSE IF previous >= 0 /\ current < 0 THEN "bearish"
        ELSE Null

\* C18: in every MACD result sequence, result i > 0 carries the bullish
\* flag exactly when the reported histogram goes from <= 0 at i - 1 to
\* > 0 at i, and the bearish flag exactly when it goes from >= 0 to < 0;
\* the first result carries no flag, and no two consecutive results carry
\* the same flag.
C18_CrossoverOnReportedTransitions ==
    (ind.obj.kind = "indicator" /\ ind.obj.type = "MACD"
        /\ ind.out.kind = "returned") =>
        LET results == ind.out.results
        IN  /\ Len(results) > 0 => results[1].metadata.crossover = Null
            /\ \A i \in 2..Len(results) :
                  /\ results[i].metadata.crossover
                         = ReportedTransition(results, i)
                  /\ results[i].metadata.crossover # Null =>
                         results[i - 1].metadata.crossover
                             # results[i].metadata.crossover

\* C19: a signal whose estimated order value divided by the portfolio
\* value exceeds the 10% limit is rejected, with a failed POSITION_SIZE
\* check of severity high whose message is among the reasons; a signal
\* whose ratio is within the limit passes the position-size check.  A
\* portfolio worth nothing is exceeded by any order.
C19_PositionSizeLimitEnforced ==
    sv.result # NotValidated =>
        LET r == sv.result
            exceeds ==
                \/ sv.context.portfolioValue = 0
                \/ EstimatedOrderValue * 100
                       > MaxPositionSizePct * sv.context.portfolioValue
        IN  /\ exceeds =>
                  /\ ~r.isValid
                  /\ \E i \in DOMAIN r.checks :
                        /\ r.checks[i].type = "POSITION_SIZE"
                        /\ ~r.checks[i].isValid
                        /\ r.checks[i].severity = "high"
                        /\ \E j \in DOMAIN r.reasons :
                               r.reasons[j] = r.checks[i].message
            /\ ~exceeds =>
                  \E i \in DOMAIN r.checks :
                      /\ r.checks[i].type = "POSITION_SIZE"
                      /\ r.checks[i].isValid

\* C20: for every strategy type tag, StrategyFactory.create returns a
\* strategy instance exactly when isSupported(type) holds, which is for
\* RSI_OVERSOLD_OVERBOUGHT and MACD_CROSSOVER only, and throws 'not
\* implemented yet' or 'Unknown strategy type' for every other tag.
C20_CreateExactlyWhenSupported ==
    (ind.request # NoObject /\ ind.request.via = "StrategyFactory") =>
        /\ ind.obj.kind = "strategy" <=> isSupported(ind.request.type)
        /\ isSupported(ind.request.type) <=>
               ind.request.type
                   \in {"RSI_OVERSOLD_OVERBOUGHT", "MACD_CROSSOVER"}
        /\ ind.obj.kind = "strategy" => ind.obj.type = ind.request.type
        /\ ~isSupported(ind.request.type) =>
               /\ ind.obj.kind = "thrown"
               /\ ind.obj.message
                      \in {"not implemented yet", "Unknown strategy type"}

\* The factory was asked for a MOMENTUM strategy and threw.
C20_Witness ==
    /\ ind.request # NoObject
    /\ ind.request.via = "StrategyFactory"
    /\ ind.request.type = "MOMENTUM"
    /\ ind.obj = Thrown("not implemented yet")

\* C21: during stop() on a running engine the running flag is flipped only
\* after the cancellation sweep has finished: while a sweep still has
\* cancels outstanding, isEngineRunning() is true.
C21_RunningThroughoutSweep ==
    \A i \in BusySlots(sweeps) :
        sweeps[i][1].pending # {} => isEngineRunning

\* The error events of the last step that are about an order other than id.
ErrorsForOthers(type, id) ==
    \E k \in DOMAIN events : events[k].type = type /\ events[k].id # id

\* C22: when a connector call of a monitoring tick or of stop()'s sweep is
\* rejected for one order, orderUpdateError / orderCancelError is emitted
\* for that order only, the order stays in the registry, every other
\* active order has had its refresh or cancel issued by the same pass,
\* and the pass goes on to completion with the calls still outstanding.
C22_FailureIsIsolatedToItsOrder ==
    [][ /\ \A i \in BusySlots(sweeps) : \A c \in sweeps[i][1].pending :
              cancelOrderSettled(i, c, "throw") =>
                  /\ EmittedFor("orderCancelError", c.orderId)'
                  /\ ~ErrorsForOthers("orderCancelError", c.orderId)'
                  /\ c.key \in DOMAIN activeOrders'
                  /\ \A k \in DOMAIN activeOrders \ {c.key} :
                        \E o \in sweeps[i][1].issued : o.key = k
                  /\ sweeps[i][1].pending \ {c} # {} =>
                        (sweeps'[i] # Idle
                         /\ sweeps'[i][1].pending = sweeps[i][1].pending \ {c})
        /\ \A i \in BusySlots(passes) : \A c \in passes[i][1].pending :
              getOrderSettled(i, c, "throw") =>
                  /\ EmittedFor("orderUpdateError", c.orderId)'
                  /\ ~ErrorsForOthers("orderUpdateError", c.orderId)'
                  /\ activeOrders' = activeOrders
                  /\ \A k \in DOMAIN activeOrders \ {c.key} :
                        \E o \in passes[i][1].issued : o.key = k
                  /\ passes[i][1].pending \ {c} # {} =>
                        (passes'[i] # Idle
                         /\ passes'[i][1].pending = passes[i][1].pending \ {c})
      ]_vars

\* The step is a call of run().
RunActed ==
    /\ strat # NoStrategy
    /\ \/ strat'.generated # "none"
       \/ /\ ~strat.isActive \/ strat.marketData = 0
          /\ strat' = Ran(strat, "none", FALSE, NoSignal, FALSE)

\* C23: run() returns nothing when the strategy is inactive or its window
\* is empty; otherwise it returns a signal only if generateSignal produced
\* one and validateSignal accepted it.  lastSignal changes only in that
\* case, and to exactly the returned signal: a run() that returns nothing
\* or throws leaves lastSignal as it was.
C23_RunRecordsOnlyWhatItReturns ==
    [][ RunActed =>
          /\ (~strat.isActive \/ strat.marketData = 0)
                => strat'.returned = NoSignal /\ ~strat'.threw
          /\ strat'.returned # NoSignal
                => /\ strat.isActive /\ strat.marketData > 0
                   /\ strat'.generated \in Sides
                   /\ strat'.accepted
                   /\ strat'.returned.side = strat'.generated
                   /\ strat'.lastSignal = strat'.returned
          /\ (strat'.returned = NoSignal \/ strat'.threw)
                => strat'.lastSignal = strat.lastSignal
      ]_vars

\* A run() has returned a signal and recorded it, some time after
\* construction.
C23_Witness ==
    /\ strat # NoStrategy
    /\ strat.returned # NoSignal
    /\ strat.generated \in Sides /\ strat.accepted
    /\ strat.lastSignal = strat.returned
    /\ strat.now > 0

\* The threshold the latest RSI is past, and by how much, for a signal of
\* the given side.
DistancePast(strategy, side) ==
    IF side = "buy"
    THEN strategy.parameters.oversold - strategy.latest.value
    ELSE strategy.latest.value - strategy.parameters.overbought

\* C24: the RSI strategy generates a BUY only when the latest RSI is
\* classified oversold and is at or below the configured floor, a SELL only
\* when it is classified overbought and is at or above the configured
\* ceiling; the signal's confidence is min(95, 60 + 2 x distance past the
\* threshold) and is never below the strategy's minConfidence.
C24_RsiSignalOnlyPastThreshold ==
    ind.out.kind = "signal" =>
        LET s == ind.obj
        IN  /\ s.latest # NoObject
            /\ ind.out.side = "buy" =>
                   /\ s.latest.signal = "oversold"
                   /\ s.latest.value <= s.parameters.oversold
            /\ ind.out.side = "sell" =>
                   /\ s.latest.signal = "overbought"
                   /\ s.latest.value >= s.parameters.overbought
            /\ ind.out.confidence
                   = Min2(9500, 6000 + 2 * DistancePast(s, ind.out.side))
            /\ ind.out.confidence >= s.parameters.minConfidence

\* A BUY has been generated with a confidence strictly between the base of
\* 60 and the cap of 95.
C24_Witness ==
    /\ ind.out.kind = "signal"
    /\ ind.out.side = "buy"
    /\ ind.out.confidence < 9500
    /\ ind.out.confidence > 6000

\* C25: no order is added to the registry while isEngineRunning() is
\* false: a dispatch still in flight when stop() is called inserts nothing
\* afterwards.
C25_NoInsertWhileStopped ==
    [][ (DOMAIN activeOrders' \ DOMAIN activeOrders # {}) => isEngineRunning
      ]_vars

\* C26: at most one order-monitoring timer is live at any time, whatever
\* the sequence of start() and stop() calls.
C26_AtMostOneTimer == timers <= 1

\* A processSignal call is between its first and its last statement: it
\* awaits the connector's placeOrder.
ProcessSignalInFlight ==
    \E i \in BusySlots(dispatches) : dispatches[i][1].waiting # <<>>

\* C27: every signal is counted exactly once as executed or rejected:
\* totalSignals >= executedTrades + rejectedSignals always, and the two are
\* equal whenever no processSignal call is in flight.
C27_EverySignalCountedOnce ==
    /\ metrics.totalSignals >= metrics.executedTrades + metrics.rejectedSignals
    /\ ~ProcessSignalInFlight =>
           metrics.totalSignals
               = metrics.executedTrades + metrics.rejectedSignals

\* C28: market data is kept per symbol: every signal and order produced in
\* response to a dispatch for symbol S carries symbol S, also for a
\* strategy registered for several symbols.
C28_OrderCarriesDispatchedSymbol ==
    \A i \in BusySlots(dispatches) :
        dispatches[i][1].waiting # <<>> =>
            dispatches[i][1].waiting[1].symbol = dispatches[i][1].symbol

NonTerminal(order) == order.status \in {"pending", "open"}

\* C29: in live mode the registry never holds two non-terminal (PENDING or
\* OPEN) orders on the same symbol with opposite sides: a signal is
\* rejected while the registry holds a non-terminal order of the opposite
\* side on its symbol.
C29_NoOpposingActiveOrders ==
    ~config.enablePaperTrading =>
        \A a, b \in getActiveOrders :
            (NonTerminal(a) /\ NonTerminal(b) /\ a.symbol = b.symbol)
                => a.side = b.side

\* C30: on the simulated venue no balance ever becomes negative, whatever
\* sequence of placeOrder calls is made.
C30_BalancesNeverNegative ==
    sim # NoSimulator => \A c \in SimCurrencies : sim.balances[c] >= 0

====
